---- MODULE Spec2Model ----
(***************************************************************************)
(* Device provisioning over BLE: BluetoothService (services/bluetooth.ts)  *)
(* and the RegisterDeviceModal component that drives it.                   *)
(*                                                                         *)
(* Every `await` of the source is a suspension point: the code between two *)
(* awaits is one atomic action, and the user's clicks (cancel, finish,     *)
(* connect, submit) are actions that interleave with the suspended runs.   *)
(* A run of handleConnectDevice or handleConfigSubmit is a record of       *)
(* `tasks`; its ghost fields (reg, wlog, prog, imgProg, disc, out,         *)
(* failedAt, cause, idRead, paced) record what the run did and are never   *)
(* read by the modelled code.                                              *)
(***************************************************************************)
EXTENDS Integers, Sequences, FiniteSets, TLC

\* ---------------------------------------------------------------- bounds
\* total number of handler runs (connect or submit clicks) in a behaviour
MaxTasks == 3
\* byte length of each scalar field of the form (ssid, password, serverUrl)
ScalarLen == 8
\* byte lengths of the background image the user may pick
FileSizes == {0, 512, 1300}
\* calls of BluetoothService.disconnect() besides those of the handlers, per session
MaxCalls == 2

\* ------------------------------------------------------ program constants
CHUNK_SIZE == 512

\* characteristic.writeValue() rejects a value of more than 512 bytes
MaxAttributeLen == 512

\* byte lengths the encoded text of a scalar field may have: the form puts
\* no upper limit on it
ValueLens == {ScalarLen, MaxAttributeLen + ScalarLen}

Tasks == 1..MaxTasks
NoFile == -1

\* scalar fields in the order writeConfig writes them
Fields == <<"ssid", "password", "serverUrl">>

\* error messages of the source
NoError        == "null"
MsgUnsupported == "UnsupportedBrowser"
MsgConnect     == "ConnectFailed"
MsgNotConnected == "PleaseConnectFirst"
MsgWriteConfig == "WriteConfigFailedRetry"
MsgReset       == "ResetFailed"
MsgRegister    == "RegistrationFailed"

VARIABLES
  supported,       \* 'bluetooth' in navigator
  open,            \* registerModalVisible
  currentStep, loading, progress, errorMessage, deviceMac, fileList,
  device, server, service,   \* BluetoothService fields; service is "null", "live" or,
                             \* once its connection is gone, "stale"
  gattConnected,   \* BluetoothRemoteGATTServer.connected of the peer
  tasks,           \* the runs of the async handlers
  registered,      \* device ids the backend holds a record of
  cancelled,       \* ghost: the session was ended by handleCancel and none started since
  disconnectCalls, \* ghost: calls of BluetoothService.disconnect() in the current session
  fallbackIds      \* ghost: the identifiers getMacAddress() has returned from its catch
                   \* block, in call order; its length stands for the time of a call

vars == <<supported, open, currentStep, loading, progress, errorMessage, deviceMac,
          fileList, device, server, service, gattConnected, tasks,
          registered, cancelled, disconnectCalls, fallbackIds>>

ui        == <<currentStep, loading, progress, errorMessage, deviceMac, fileList>>
transport == <<device, server, service, gattConnected>>

IdleTask ==
  [kind |-> "none", pc |-> "idle", h |-> "null", field |-> 0, i |-> 0,
   completedSteps |-> 0, file |-> NoFile, mac |-> "",
   err |-> "null",
   reg |-> "none", wlog |-> <<>>, prog |-> <<>>, imgProg |-> <<>>,
   disc |-> 0, out |-> "none", failedAt |-> <<>>,
   cause |-> "none", idRead |-> "none", paced |-> <<>>]

\* ------------------------------------------------------------- helpers
\* mutant: an empty payload still takes one frame
TotalChunks_AtLeastOne(totalBytes) ==
  IF totalBytes = 0 THEN 1
  ELSE IF totalBytes % CHUNK_SIZE = 0 THEN totalBytes \div CHUNK_SIZE
                                      ELSE totalBytes \div CHUNK_SIZE + 1

\* mutant: Math.floor instead of Math.ceil
TotalChunks_Floor(totalBytes) == totalBytes \div CHUNK_SIZE

\* Math.ceil(totalBytes / CHUNK_SIZE)
TotalChunks(totalBytes) ==
  IF totalBytes % CHUNK_SIZE = 0 THEN totalBytes \div CHUNK_SIZE
                                 ELSE totalBytes \div CHUNK_SIZE + 1

Min(a, b) == IF a <= b THEN a ELSE b

\* Math.round((num / den) * 100)
RoundPercent(num, den) == (200 * num + den) \div (2 * den)

\* config.backgroundImage ? 4 : 3
TotalSteps(file) == IF file # NoFile THEN 4 ELSE 3

\* this.server?.connected ?? false
IsConnected == server # "null" /\ gattConnected

\* a GATT operation succeeds only on a handle (server, service or
\* characteristic) whose connection is still up
OpOk(h) == h = "live" /\ gattConnected

\* the end of a connection invalidates every handle obtained in it
Stale(ts) == [t \in Tasks |-> [ts[t] EXCEPT !.h = IF @ = "live" THEN "stale" ELSE @]]

\* a new run takes the first unused record; what is remembered of the runs
\* that have returned is forgotten when the next run starts
Free(t) == tasks[t].pc = "idle"
HasFreeTask == \E t \in Tasks : Free(t)
FreeTask == CHOOSE t \in Tasks : Free(t) /\ \A u \in Tasks : u < t => ~Free(u)
Returned == [IdleTask EXCEPT !.pc = "returned"]
NewRun(rec) ==
  [t \in Tasks |-> IF t = FreeTask THEN rec
                   ELSE IF tasks[t].pc = "done" THEN Returned ELSE tasks[t]]

Init ==
  /\ supported \in BOOLEAN
  /\ open = FALSE
  /\ currentStep = 0
  /\ loading = FALSE
  /\ progress = 0
  /\ errorMessage = NoError
  /\ deviceMac = ""
  /\ fileList = NoFile
  /\ device = "null"
  /\ server = "null"
  /\ service = "null"
  /\ gattConnected = FALSE
  /\ tasks = [t \in Tasks |-> IdleTask]
  /\ registered \in {{}, {"MAC", "BTID"}}
  /\ cancelled = FALSE
  /\ disconnectCalls = 0
  /\ fallbackIds = <<>>

\* Device page: the "register device" button shows the modal
OpenModal ==
  /\ ~open
  /\ open' = TRUE
  /\ cancelled' = FALSE
  /\ disconnectCalls' = 0
  /\ UNCHANGED <<supported, ui, transport, tasks, registered, fallbackIds>>

\* ------------------------------------------------------ BluetoothService
\* mutant: the cached device survives
Disconnect_KeepsDevice ==
  /\ gattConnected' = IF server # "null" /\ gattConnected THEN FALSE ELSE gattConnected
  /\ device' = device
  /\ server' = "null"
  /\ service' = "null"

\* disconnect(): this.server.disconnect() when the link is up, then the three
\* cached handles are cleared
Disconnect ==
  /\ gattConnected' = IF server # "null" /\ gattConnected THEN FALSE ELSE gattConnected
  /\ device' = "null"
  /\ server' = "null"
  /\ service' = "null"

\* the peer drops the link (power loss, reboot after the reset command)
LinkDrop ==
  /\ gattConnected
  /\ gattConnected' = FALSE
  /\ service' = IF service = "live" THEN "stale" ELSE service
  /\ tasks' = Stale(tasks)
  /\ UNCHANGED <<supported, open, ui, device, server,
                 registered, cancelled, disconnectCalls, fallbackIds>>

\* --------------------------------------------------- handleConnectDevice
\* the end of a run: the record keeps its ghost fields
Ended(t, outcome) == [tasks[t] EXCEPT !.pc = "done", !.out = outcome]

\* a run ends by throwing msg into the catch block of its handler
Throw(rec, msg) == [rec EXCEPT !.pc = "done", !.out = "Errored", !.err = msg]

\* mutant: the capability probe runs after setLoading(true)
HandleConnectDevice_ProbesLate ==
  /\ open /\ currentStep = 0 /\ ~loading
  /\ loading' = TRUE
  /\ IF ~supported
       THEN /\ errorMessage' = MsgUnsupported
            /\ UNCHANGED tasks
       ELSE /\ HasFreeTask
            /\ errorMessage' = NoError
            /\ tasks' = NewRun([IdleTask EXCEPT !.kind = "connect", !.pc = "requestDevice"])
  /\ UNCHANGED <<supported, open, currentStep, progress, deviceMac, fileList,
                 transport, registered, cancelled, disconnectCalls, fallbackIds>>

\* click on the connect button (rendered at step 0; a loading button takes no click)
HandleConnectDevice ==
  /\ open /\ currentStep = 0 /\ ~loading
  /\ IF ~supported
       THEN /\ errorMessage' = MsgUnsupported
            /\ UNCHANGED <<loading, tasks>>
       ELSE /\ HasFreeTask
            /\ loading' = TRUE
            /\ errorMessage' = NoError
            /\ tasks' = NewRun([IdleTask EXCEPT !.kind = "connect", !.pc = "requestDevice"])
  /\ UNCHANGED <<supported, open, currentStep, progress, deviceMac, fileList,
                 transport, registered, cancelled, disconnectCalls, fallbackIds>>

\* catch + finally of handleConnectDevice for a run with record rec
ConnectCatch(t, rec, msg) ==
  /\ errorMessage' = msg
  /\ loading' = FALSE
  /\ tasks' = [tasks EXCEPT ![t] = Throw(rec, msg)]
  /\ UNCHANGED <<currentStep, progress, deviceMac, fileList>>

\* the error the catch block of connect() throws whatever it caught: a
\* dismissed chooser ("UserCancelled"), a device without GATT ("NoGatt"), a
\* failed gatt.connect() ("GattConnect") or getPrimaryService() ("ServiceBinding")
ConnectError(cause) == MsgConnect

\* connect() fails for cause
ConnectThrows(t, cause) ==
  ConnectCatch(t, [tasks[t] EXCEPT !.cause = cause], ConnectError(cause))

\* navigator.bluetooth.requestDevice() settles
RequestDeviceResolved(t) ==
  /\ tasks[t].pc = "requestDevice"
  /\ \/ \* the chooser is dismissed
        /\ ConnectThrows(t, "UserCancelled")
        /\ UNCHANGED transport
     \/ \* a device without GATT
        /\ device' = "dev"
        /\ ConnectThrows(t, "NoGatt")
        /\ UNCHANGED <<server, service, gattConnected>>
     \/ \* a device; gatt.connect() is issued
        /\ device' = "dev"
        /\ tasks' = [tasks EXCEPT ![t].pc = "gattConnect"]
        /\ UNCHANGED <<ui, server, service, gattConnected>>
  /\ UNCHANGED <<supported, open, registered, cancelled, disconnectCalls, fallbackIds>>

\* device.gatt.connect() settles
GattConnectResolved(t) ==
  /\ tasks[t].pc = "gattConnect"
  /\ \/ /\ ConnectThrows(t, "GattConnect")
        /\ UNCHANGED transport
     \/ /\ gattConnected' = TRUE
        /\ server' = "srv"
        /\ tasks' = [tasks EXCEPT ![t].pc = "getPrimaryService", ![t].h = "live"]
        /\ UNCHANGED <<ui, device, service>>
  /\ UNCHANGED <<supported, open, registered, cancelled, disconnectCalls, fallbackIds>>

\* Date.now() at a call of getMacAddress(): two calls never see the same time
Now == Len(fallbackIds)

\* the identifier getMacAddress() falls back to:
\* this.device?.id || `${this.device?.name}-${Date.now()}`
FallbackId == IF device # "null" THEN "BTID" ELSE "undefined-" \o ToString(Now)

\* getMacAddress() has returned mac, read from the device (read = "ok") or
\* made up in its catch block (read = "failed"): getDeviceName(), then the
\* state updates
ConnectFinish(t, mac, read) ==
  /\ fallbackIds' = IF read = "failed" THEN Append(fallbackIds, mac) ELSE fallbackIds
  /\ IF device = "null"
       THEN ConnectCatch(t, [tasks[t] EXCEPT !.mac = mac, !.idRead = read], MsgNotConnected)
       ELSE /\ deviceMac' = mac
            /\ currentStep' = 1
            /\ loading' = FALSE
            /\ tasks' = [tasks EXCEPT ![t] =
                  [Ended(t, "AwaitingConfig") EXCEPT !.mac = mac, !.idRead = read]]
            /\ UNCHANGED <<progress, errorMessage, fileList>>

\* server.getPrimaryService() settles; on success connect() returns and
\* getMacAddress() issues getCharacteristic(MAC_ADDRESS)
GetPrimaryServiceResolved(t) ==
  /\ tasks[t].pc = "getPrimaryService"
  /\ \/ /\ ConnectThrows(t, "ServiceBinding")
        /\ UNCHANGED transport
     \/ /\ OpOk(tasks[t].h)
        /\ service' = "live"
        /\ tasks' = [tasks EXCEPT ![t].pc = "macGetChar"]
        /\ UNCHANGED <<ui, device, server, gattConnected>>
  /\ UNCHANGED <<supported, open, registered, cancelled, disconnectCalls, fallbackIds>>

\* getCharacteristic(MAC_ADDRESS) settles
MacGetCharResolved(t) ==
  /\ tasks[t].pc = "macGetChar"
  /\ \/ /\ OpOk(tasks[t].h)
        /\ tasks' = [tasks EXCEPT ![t].pc = "macRead"]
        /\ UNCHANGED <<ui, fallbackIds>>
     \/ ConnectFinish(t, FallbackId, "failed")
  /\ UNCHANGED <<supported, open, transport, registered, cancelled, disconnectCalls>>

\* characteristic.readValue() settles
MacReadResolved(t) ==
  /\ tasks[t].pc = "macRead"
  /\ \/ /\ OpOk(tasks[t].h)
        /\ ConnectFinish(t, "MAC", "ok")
     \/ ConnectFinish(t, FallbackId, "failed")
  /\ UNCHANGED <<supported, open, transport, registered, cancelled, disconnectCalls>>

\* ---------------------------------- handleConfigSubmit / handleWriteConfig
\* the state a run leaves behind when it is suspended at its next await, or
\* has ended, with record rec: catch writes errorMessage, finally loading
Surface(rec, step, prog) ==
  /\ currentStep' = step
  /\ progress' = prog
  /\ errorMessage' = IF rec.out = "Errored" THEN rec.err ELSE errorMessage
  /\ loading' = IF rec.pc = "done" THEN FALSE ELSE loading
  /\ UNCHANGED <<deviceMac, fileList>>

Resume(t, rec, step, prog) ==
  /\ tasks' = [tasks EXCEPT ![t] = rec]
  /\ Surface(rec, step, prog)

\* the error the catch block of writeConfig() throws for a failure at frame i
\* of field f: the caught error is logged and dropped
WriteConfigError(f, i) == MsgWriteConfig

\* mutant: the failure is recorded but the run goes on
ThrowAt_Swallowed(rec, f, i) == [rec EXCEPT !.failedAt = <<f, i>>]

\* a write of the transfer fails at frame i of field f
ThrowAt(rec, f, i) == [Throw(rec, WriteConfigError(f, i)) EXCEPT !.failedAt = <<f, i>>]

\* a characteristic.writeValue() is issued / acknowledged / rejected
Issue(rec, f, i, lo, hi) ==
  [rec EXCEPT !.wlog = Append(@, [f |-> f, i |-> i, lo |-> lo, hi |-> hi, st |-> "pending"])]
Settle(rec, st) == [rec EXCEPT !.wlog[Len(rec.wlog)].st = st]

\* resetDevice() up to its first await
StartReset(rec) ==
  IF service = "null" THEN Throw(rec, MsgNotConnected)
                 ELSE [rec EXCEPT !.pc = "resetGetChar", !.h = service]

\* writeBackgroundImage() up to its first await
StartImage(rec) ==
  IF service = "null" THEN ThrowAt(rec, "backgroundImage", 0)
                 ELSE [rec EXCEPT !.pc = "imgGetChar", !.h = service]

\* writeCharacteristic() of scalar field number f up to its first await
StartField(rec, f) ==
  IF service = "null" THEN ThrowAt(rec, Fields[f], 0)
                 ELSE [rec EXCEPT !.pc = "getChar", !.field = f, !.h = service]

\* mutant: the reset command is sent before the asset
AfterField_ResetBeforeImage(rec) ==
  IF rec.field < Len(Fields) THEN StartField(rec, rec.field + 1)
  ELSE StartReset(rec)

\* writeConfig() after the write of scalar field rec.field was acknowledged
AfterField(rec) ==
  IF rec.field < Len(Fields) THEN StartField(rec, rec.field + 1)
  ELSE IF rec.file # NoFile THEN StartImage(rec)
  ELSE StartReset(rec)

\* completedSteps++; onProgress?.(completedSteps / totalSteps)
StepDone(rec) ==
  [rec EXCEPT !.completedSteps = @ + 1,
              !.prog = Append(@, <<rec.completedSteps + 1, TotalSteps(rec.file)>>)]

\* the progress state after the last onProgress call of rec
Shown(rec) ==
  LET p == rec.prog[Len(rec.prog)] IN RoundPercent(p[1], p[2])

\* click on the submit button (rendered at step 1; a loading button takes no click)
HandleConfigSubmit ==
  /\ open /\ currentStep = 1 /\ ~loading
  /\ HasFreeTask
  /\ tasks' = NewRun([IdleTask EXCEPT !.kind = "submit", !.pc = "validate",
                                         !.file = fileList, !.mac = deviceMac])
  /\ UNCHANGED <<supported, open, ui, transport, registered, cancelled, disconnectCalls, fallbackIds>>

\* form.validateFields() settles; on success handleWriteConfig runs up to
\* the registration request
ValidateFieldsResolved(t) ==
  /\ tasks[t].pc = "validate"
  /\ \/ /\ tasks' = [tasks EXCEPT ![t] = Ended(t, "Invalid")]
        /\ UNCHANGED ui
     \/ /\ tasks' = [tasks EXCEPT ![t].pc = "register", ![t].reg = "pending"]
        /\ currentStep' = 2
        /\ loading' = TRUE
        /\ progress' = 0
        /\ errorMessage' = NoError
        /\ UNCHANGED <<deviceMac, fileList>>
  /\ UNCHANGED <<supported, open, transport, registered, cancelled, disconnectCalls, fallbackIds>>

\* mutant: a 409 is treated like a fresh registration
AfterRegister_IgnoresConflict(rec, outcome) ==
  CASE outcome = "Failed" -> Throw([rec EXCEPT !.reg = outcome], MsgRegister)
    [] OTHER ->
         IF service = "null" THEN Throw([rec EXCEPT !.reg = outcome], MsgNotConnected)
                        ELSE StartField([rec EXCEPT !.reg = outcome], 1)

\* mutant: a registration failure is logged and the transfer goes on
AfterRegister_SwallowsFailure(rec, outcome) ==
  CASE outcome = "Conflict" -> [rec EXCEPT !.reg = outcome, !.pc = "done", !.out = "AlreadyRegistered"]
    [] OTHER ->
         IF service = "null" THEN Throw([rec EXCEPT !.reg = outcome], MsgNotConnected)
                        ELSE StartField([rec EXCEPT !.reg = outcome], 1)

\* what handleWriteConfig does with the outcome of registerDevice()
AfterRegister(rec, outcome) ==
  CASE outcome = "Conflict" -> [rec EXCEPT !.reg = outcome, !.pc = "done", !.out = "AlreadyRegistered"]
    [] outcome = "Failed"   -> Throw([rec EXCEPT !.reg = outcome], MsgRegister)
    [] outcome = "Created"  ->
         IF service = "null" THEN Throw([rec EXCEPT !.reg = outcome], MsgNotConnected)
                        ELSE StartField([rec EXCEPT !.reg = outcome], 1)

\* the backend answers a registration of id with outcome: 201 for an id it
\* does not hold, 409 for one it holds, an error at any time
Outcomes == {"Created", "Conflict", "Failed"}
Answers(outcome, id) ==
  /\ outcome = "Created" => id \notin registered
  /\ outcome = "Conflict" => id \in registered

\* mutant: a 409 releases the transport
RegisterDeviceResolved_DisconnectsOnConflict(t) ==
  /\ tasks[t].pc = "register"
  /\ \E outcome \in Outcomes :
        /\ Answers(outcome, tasks[t].mac)
        /\ registered' = IF outcome = "Created" THEN registered \cup {tasks[t].mac}
                                                ELSE registered
        /\ LET rec == AfterRegister(tasks[t], outcome) IN
             Resume(t, rec, IF rec.out = "AlreadyRegistered" THEN 3 ELSE currentStep, progress)
        /\ IF outcome = "Conflict"
             THEN Disconnect /\ disconnectCalls' = disconnectCalls + 1
             ELSE UNCHANGED <<transport, disconnectCalls>>
  /\ UNCHANGED <<supported, open, cancelled, fallbackIds>>

\* deviceService.registerDevice() settles: 409 for a known id
RegisterDeviceResolved(t) ==
  /\ tasks[t].pc = "register"
  /\ \E outcome \in Outcomes :
        /\ Answers(outcome, tasks[t].mac)
        /\ registered' = IF outcome = "Created" THEN registered \cup {tasks[t].mac}
                                                ELSE registered
        /\ LET rec == AfterRegister(tasks[t], outcome) IN
             Resume(t, rec, IF rec.out = "AlreadyRegistered" THEN 3 ELSE currentStep, progress)
  /\ UNCHANGED <<supported, open, transport, cancelled, disconnectCalls, fallbackIds>>

\* service.getCharacteristic(uuid) of a scalar field settles; the value of
\* the field, n bytes once encoded, is written in one writeValue()
GetCharacteristicResolved(t) ==
  /\ tasks[t].pc = "getChar"
  /\ \/ /\ OpOk(tasks[t].h)
        /\ \E n \in ValueLens :
             tasks' = [tasks EXCEPT ![t] =
               [Issue(tasks[t], Fields[tasks[t].field], 0, 0, n) EXCEPT !.pc = "writeValue"]]
        /\ UNCHANGED ui
     \/ Resume(t, ThrowAt(tasks[t], Fields[tasks[t].field], 0),
               currentStep, progress)
  /\ UNCHANGED <<supported, open, transport, registered, cancelled, disconnectCalls, fallbackIds>>

\* characteristic.writeValue(data) of a scalar field settles
WriteValueResolved(t) ==
  /\ tasks[t].pc = "writeValue"
  /\ \/ /\ OpOk(tasks[t].h)
        /\ tasks[t].wlog[Len(tasks[t].wlog)].hi <= MaxAttributeLen
        /\ LET done == StepDone(Settle(tasks[t], "ok")) IN
             Resume(t, AfterField(done), currentStep, Shown(done))
     \/ Resume(t, ThrowAt(Settle(tasks[t], "fail"), Fields[tasks[t].field], 0),
               currentStep, progress)
  /\ UNCHANGED <<supported, open, transport, registered, cancelled, disconnectCalls, fallbackIds>>

\* the frame writeBackgroundImage() writes in iteration i of its loop
ChunkStart(i) == i * CHUNK_SIZE
ChunkEnd(i, totalBytes) == Min(ChunkStart(i) + CHUNK_SIZE, totalBytes)

\* mutant: the loop stops one frame early
MoreChunks_SkipsLast(i, totalChunks) == i < totalChunks - 1

\* the loop condition of writeBackgroundImage()
MoreChunks(i, totalChunks) == i < totalChunks

\* mutant: a delay follows every frame
PaceAfter_EveryFrame(i, totalChunks) == i < totalChunks

\* the pacing condition of writeBackgroundImage()
PaceAfter(i, totalChunks) == i < totalChunks - 1

\* writeBackgroundImage() returned: completedSteps++, onProgress, resetDevice()
AfterImage(rec) == StartReset(StepDone(rec))

\* the loop of writeBackgroundImage() arrives at iteration i
ChunkLoop(rec, i) ==
  IF MoreChunks(i, TotalChunks(rec.file))
    THEN [Issue(rec, "backgroundImage", i, ChunkStart(i), ChunkEnd(i, rec.file))
            EXCEPT !.pc = "imgWrite", !.i = i]
    ELSE AfterImage(rec)

\* service.getCharacteristic(BACKGROUND_IMAGE) settles
ImgGetCharacteristicResolved(t) ==
  /\ tasks[t].pc = "imgGetChar"
  /\ \/ /\ OpOk(tasks[t].h)
        /\ tasks' = [tasks EXCEPT ![t].pc = "arrayBuffer"]
        /\ UNCHANGED ui
     \/ Resume(t, ThrowAt(tasks[t], "backgroundImage", 0), currentStep, progress)
  /\ UNCHANGED <<supported, open, transport, registered, cancelled, disconnectCalls, fallbackIds>>

\* file.arrayBuffer() settles
ArrayBufferResolved(t) ==
  /\ tasks[t].pc = "arrayBuffer"
  /\ \/ LET rec == ChunkLoop(tasks[t], 0) IN
          Resume(t, rec, currentStep, IF Len(rec.prog) > Len(tasks[t].prog) THEN Shown(rec) ELSE progress)
     \/ Resume(t, ThrowAt(tasks[t], "backgroundImage", 0), currentStep, progress)
  /\ UNCHANGED <<supported, open, transport, registered, cancelled, disconnectCalls, fallbackIds>>

\* mutant: the callback writeConfig passes forgets the completed steps
ChunkDone_ChunkOnly(rec) ==
  LET k == TotalChunks(rec.file) IN
  [rec EXCEPT !.imgProg = Append(@, <<rec.i + 1, k>>),
              !.prog = Append(@, <<rec.i + 1, k * TotalSteps(rec.file)>>)]

\* onProgress?.((i + 1) / totalChunks) and the callback writeConfig passes:
\* (completedSteps + imgProgress) / totalSteps
ChunkDone(rec) ==
  LET k == TotalChunks(rec.file) IN
  [rec EXCEPT !.imgProg = Append(@, <<rec.i + 1, k>>),
              !.prog = Append(@, <<rec.completedSteps * k + rec.i + 1, k * TotalSteps(rec.file)>>)]

\* characteristic.writeValue(chunk) settles
ChunkWriteResolved(t) ==
  /\ tasks[t].pc = "imgWrite"
  /\ \/ /\ OpOk(tasks[t].h)
        /\ LET acked == ChunkDone(Settle(tasks[t], "ok"))
               rec == IF PaceAfter(acked.i, TotalChunks(acked.file))
                        THEN [acked EXCEPT !.pc = "delay", !.paced = Append(@, acked.i)]
                        ELSE ChunkLoop(acked, acked.i + 1)
           IN Resume(t, rec, currentStep, Shown(rec))
     \/ Resume(t, ThrowAt(Settle(tasks[t], "fail"), "backgroundImage", tasks[t].i),
               currentStep, progress)
  /\ UNCHANGED <<supported, open, transport, registered, cancelled, disconnectCalls, fallbackIds>>

\* setTimeout(resolve, CHUNK_DELAY) fires
ChunkDelayElapsed(t) ==
  /\ tasks[t].pc = "delay"
  /\ LET rec == ChunkLoop(tasks[t], tasks[t].i + 1) IN
       Resume(t, rec, currentStep, IF Len(rec.prog) > Len(tasks[t].prog) THEN Shown(rec) ELSE progress)
  /\ UNCHANGED <<supported, open, transport, registered, cancelled, disconnectCalls, fallbackIds>>

\* service.getCharacteristic(RESET) settles
ResetGetCharacteristicResolved(t) ==
  /\ tasks[t].pc = "resetGetChar"
  /\ \/ /\ OpOk(tasks[t].h)
        /\ tasks' = [tasks EXCEPT ![t] =
              [Issue(tasks[t], "reset", 0, 0, 5) EXCEPT !.pc = "resetWrite"]]
        /\ UNCHANGED ui
     \/ Resume(t, Throw(tasks[t], MsgReset), currentStep, progress)
  /\ UNCHANGED <<supported, open, transport, registered, cancelled, disconnectCalls, fallbackIds>>

\* mutant: the catch block releases the transport
ResetFailed_Disconnects(t, rec) ==
  LET end == [Throw(rec, MsgReset) EXCEPT !.disc = @ + 1] IN
  /\ Disconnect
  /\ disconnectCalls' = disconnectCalls + 1
  /\ tasks' = (IF IsConnected THEN Stale([tasks EXCEPT ![t] = end])
                              ELSE [tasks EXCEPT ![t] = end])
  /\ Surface(end, currentStep, progress)

\* handleWriteConfig after resetDevice() threw
ResetFailed(t, rec) ==
  /\ Resume(t, Throw(rec, MsgReset), currentStep, progress)
  /\ UNCHANGED <<transport, disconnectCalls>>

\* handleWriteConfig after resetDevice() returned
ResetSucceeded(t, rec) ==
  LET end == [rec EXCEPT !.pc = "done", !.out = "Provisioned", !.disc = @ + 1] IN
  /\ Disconnect
  /\ disconnectCalls' = disconnectCalls + 1
  /\ tasks' = (IF IsConnected THEN Stale([tasks EXCEPT ![t] = end])
                              ELSE [tasks EXCEPT ![t] = end])
  /\ Surface(end, 3, progress)

\* characteristic.writeValue('RESET') settles
ResetWriteResolved(t) ==
  /\ tasks[t].pc = "resetWrite"
  /\ \/ /\ OpOk(tasks[t].h)
        /\ ResetSucceeded(t, Settle(tasks[t], "ok"))
     \/ ResetFailed(t, Settle(tasks[t], "fail"))
  /\ UNCHANGED <<supported, open, registered, cancelled, fallbackIds>>

\* ------------------------------------------------------------ the modal
\* the transport part of handleCancel
CancelTransport ==
  IF IsConnected
    THEN Disconnect /\ disconnectCalls' = disconnectCalls + 1 /\ tasks' = Stale(tasks)
    ELSE UNCHANGED <<transport, disconnectCalls, tasks>>

\* form.resetFields() and the state resets of handleCancel, then onCancel()
CancelState ==
  /\ currentStep' = 0
  /\ progress' = 0
  /\ errorMessage' = NoError
  /\ deviceMac' = ""
  /\ fileList' = NoFile
  /\ open' = FALSE
  /\ UNCHANGED loading

\* the cancel button (steps 0..2), the close icon or the mask of the modal
HandleCancel ==
  /\ open
  /\ CancelTransport
  /\ CancelState
  /\ cancelled' = TRUE
  /\ UNCHANGED <<supported, registered, fallbackIds>>

\* the finish button of step 3: handleCancel(), then onSuccess()
HandleFinish ==
  /\ open /\ currentStep = 3
  /\ CancelTransport
  /\ CancelState
  /\ cancelled' = FALSE
  /\ UNCHANGED <<supported, registered, fallbackIds>>

\* Upload.beforeUpload accepts an image below 2 MB
BeforeUpload(n) ==
  /\ open /\ currentStep = 1
  /\ fileList' = n
  /\ UNCHANGED <<supported, open, currentStep, loading, progress, errorMessage, deviceMac,
                 transport, tasks, registered, cancelled, disconnectCalls, fallbackIds>>

\* Upload.onRemove
OnRemove ==
  /\ open /\ currentStep = 1 /\ fileList # NoFile
  /\ fileList' = NoFile
  /\ UNCHANGED <<supported, open, currentStep, loading, progress, errorMessage, deviceMac,
                 transport, tasks, registered, cancelled, disconnectCalls, fallbackIds>>

Next ==
  \/ OpenModal
  \/ LinkDrop
  \/ HandleConnectDevice
  \/ \E t \in Tasks : RequestDeviceResolved(t)
  \/ \E t \in Tasks : GattConnectResolved(t)
  \/ \E t \in Tasks : GetPrimaryServiceResolved(t)
  \/ \E t \in Tasks : MacGetCharResolved(t)
  \/ \E t \in Tasks : MacReadResolved(t)
  \/ HandleConfigSubmit
  \/ \E t \in Tasks : ValidateFieldsResolved(t)
  \/ \E t \in Tasks : RegisterDeviceResolved(t)
  \/ \E t \in Tasks : GetCharacteristicResolved(t)
  \/ \E t \in Tasks : WriteValueResolved(t)
  \/ \E t \in Tasks : ImgGetCharacteristicResolved(t)
  \/ \E t \in Tasks : ArrayBufferResolved(t)
  \/ \E t \in Tasks : ChunkWriteResolved(t)
  \/ \E t \in Tasks : ChunkDelayElapsed(t)
  \/ \E t \in Tasks : ResetGetCharacteristicResolved(t)
  \/ \E t \in Tasks : ResetWriteResolved(t)
  \/ HandleCancel
  \/ HandleFinish
  \/ \E n \in FileSizes : BeforeUpload(n)
  \/ OnRemove

Spec == Init /\ [][Next]_vars

\* ------------------------------- disconnect() called at an arbitrary moment
\* disconnect() is a public method of BluetoothService: a caller may invoke
\* it in whatever state the handlers of the modal have left the transport
CallDisconnect ==
  /\ disconnectCalls < MaxCalls
  /\ Disconnect
  /\ disconnectCalls' = disconnectCalls + 1
  /\ tasks' = (IF IsConnected THEN Stale(tasks) ELSE tasks)
  /\ UNCHANGED <<supported, open, ui, registered, cancelled, fallbackIds>>

NextDisconnect == Next \/ CallDisconnect

SpecDisconnect == Init /\ [][NextDisconnect]_vars

\* ================================================================ claims
SubmitRuns == {t \in Tasks : tasks[t].kind = "submit"}

\* the session as the specification names its states
SessionDone      == open /\ currentStep = 3
SessionErrored   == open /\ errorMessage \notin {NoError, MsgUnsupported}
SessionCancelled == cancelled

\* the writes of a whole transfer, in the order the specification demands
ExpectedWrites(file) ==
  [j \in 1..Len(Fields) |-> <<Fields[j], 0>>]
  \o (IF file = NoFile THEN <<>>
      ELSE [j \in 1..TotalChunks(file) |-> <<"backgroundImage", j - 1>>])
  \o << <<"reset", 0>> >>

WriteKeys(wlog) == [j \in 1..Len(wlog) |-> <<wlog[j].f, wlog[j].i>>]

IsPrefix(a, b) == Len(a) <= Len(b) /\ \A j \in 1..Len(a) : a[j] = b[j]

C2_CancelReleasesTransport ==
  cancelled => (~IsConnected /\ ~gattConnected /\ device = "null" /\ server = "null" /\ service = "null")

\* C3: a run whose registration call returned Conflict has issued no channel
\* write and has ended Done{AlreadyRegistered}; the step at which Conflict
\* arrives moves the session to the final step.
C3_ConflictShortCircuits ==
  /\ [](\A t \in SubmitRuns : tasks[t].reg = "Conflict" =>
            /\ tasks[t].wlog = <<>>
            /\ tasks[t].pc = "done"
            /\ tasks[t].out = "AlreadyRegistered")
  /\ [][\A t \in Tasks : (tasks[t].reg = "pending" /\ tasks'[t].reg = "Conflict") =>
            currentStep' = 3]_vars

C3_Witness ==
  \E t \in SubmitRuns : tasks[t].reg = "Conflict" /\ tasks[t].pc = "done" /\ SessionDone

\* C4: a run has issued a channel write (field, asset frame or reset) only
\* if its registration call has returned Created.
C4_NoWriteBeforeCreated ==
  \A t \in Tasks : tasks[t].wlog # <<>> => tasks[t].reg = "Created"

C4_Witness ==
  \E t \in SubmitRuns : Len(tasks[t].wlog) >= 1 /\ tasks[t].reg = "Created"

\* C5: the writes of a run follow the order network name, network secret,
\* rendezvous URL, asset frames 0.., reset, and each write is issued only
\* after the one before it was acknowledged.
C5_WritesTotallyOrdered ==
  \A t \in SubmitRuns :
     /\ IsPrefix(WriteKeys(tasks[t].wlog), ExpectedWrites(tasks[t].file))
     /\ \A j \in 1..(Len(tasks[t].wlog) - 1) : tasks[t].wlog[j].st = "ok"

C5_Witness ==
  \E t \in SubmitRuns :
     /\ tasks[t].file # NoFile /\ TotalChunks(tasks[t].file) >= 2
     /\ WriteKeys(tasks[t].wlog) = ExpectedWrites(tasks[t].file)

\* ceil(n / f), computed without Math.ceil
CeilDiv(n, f) == (n + f - 1) \div f

ImageWrites(rec) == SelectSeq(rec.wlog, LAMBDA e : e.f = "backgroundImage")

\* the asset transfer of the run has returned with every frame acknowledged
ImageTransferred(rec) == rec.file # NoFile /\ rec.completedSteps = 4

\* what C6 says of a finished asset transfer of n bytes, but for the end of
\* the progress sequence
ChunkedWriterExact(rec) ==
  LET n == rec.file
      k == CeilDiv(n, CHUNK_SIZE)
      w == ImageWrites(rec)
  IN /\ Len(w) = k
     /\ \A j \in 1..Len(w) :
           /\ w[j].i = j - 1
           /\ w[j].lo = (j - 1) * CHUNK_SIZE
           /\ w[j].hi = (IF j * CHUNK_SIZE <= n THEN j * CHUNK_SIZE ELSE n)
           /\ w[j].st = "ok"
     /\ rec.imgProg = [j \in 1..k |-> <<j, k>>]
     /\ \A j \in 1..(Len(rec.imgProg) - 1) :
           rec.imgProg[j][1] * rec.imgProg[j + 1][2] <= rec.imgProg[j + 1][1] * rec.imgProg[j][2]

\* the progress sequence of the writer ends at exactly 1.0
EndsAtOne(rec) ==
  /\ Len(rec.imgProg) >= 1
  /\ rec.imgProg[Len(rec.imgProg)][1] = rec.imgProg[Len(rec.imgProg)][2]

Rank(key) ==
  CASE key[1] = "reset" -> Len(Fields) + 1000
    [] key[1] = "backgroundImage" -> Len(Fields) + 1 + key[2]
    [] OTHER -> CHOOSE j \in 1..Len(Fields) : Fields[j] = key[1]

\* C7: a run in which the write of a field or of an asset frame failed has
\* ended Errored; it issued the failed write at most once, no write of a
\* later field or frame, no reset, and never called disconnect(); the step
\* at which the write fails surfaces the error and leaves the transport as
\* it is.
C7_WriteFailureAborts ==
  /\ [](\A t \in SubmitRuns : tasks[t].failedAt # <<>> =>
            /\ tasks[t].pc = "done" /\ tasks[t].out = "Errored"
            /\ tasks[t].disc = 0
            /\ \A j \in 1..Len(tasks[t].wlog) :
                  /\ tasks[t].wlog[j].f # "reset"
                  /\ Rank(<<tasks[t].wlog[j].f, tasks[t].wlog[j].i>>) <= Rank(tasks[t].failedAt)
            /\ Cardinality({j \in 1..Len(tasks[t].wlog) :
                  <<tasks[t].wlog[j].f, tasks[t].wlog[j].i>> = tasks[t].failedAt}) <= 1)
  /\ [][\A t \in Tasks : (tasks[t].failedAt = <<>> /\ tasks'[t].failedAt # <<>>) =>
            /\ errorMessage' # NoError
            /\ UNCHANGED <<device, server, service, gattConnected, disconnectCalls>>]_vars

C7_Witness ==
  \E t \in SubmitRuns :
     /\ tasks[t].failedAt = <<"backgroundImage", 1>>
     /\ tasks[t].wlog[Len(tasks[t].wlog)].st = "fail"
     /\ IsConnected

\* every (field, frame) a transfer can fail at
FailurePoints ==
  {<<Fields[j], 0>> : j \in 1..Len(Fields)} \cup {<<"backgroundImage", i>> : i \in 0..3}

\* C8: the error a run surfaces for a failed transfer identifies the field
\* and the frame that failed: a failure at any other field or frame would
\* have surfaced a different error.
C8_ErrorIdentifiesFailedWrite ==
  \A t \in SubmitRuns : tasks[t].failedAt # <<>> =>
     \A key \in FailurePoints \ {tasks[t].failedAt} :
        tasks[t].err # WriteConfigError(key[1], key[2])

\* C9: a run that wrote every field and whose reset write then failed has
\* called disconnect() and ended Done{Provisioned}.
C9_ResetFailureNonFatal ==
  \A t \in SubmitRuns :
     (/\ Len(tasks[t].wlog) >= 1
      /\ tasks[t].wlog[Len(tasks[t].wlog)] .f = "reset"
      /\ tasks[t].wlog[Len(tasks[t].wlog)] .st = "fail") =>
        tasks[t].out = "Provisioned" /\ tasks[t].disc = 1

\* C10: the step at which the registration call fails (not with Conflict)
\* surfaces the failure reason, leaves the transport as it is, and leaves the
\* open session at the step that offers the submit button.
C10_RegistrationFailureAllowsRetry ==
  [][\A t \in Tasks : (tasks[t].reg = "pending" /\ tasks'[t].reg = "Failed") =>
        /\ errorMessage' = MsgRegister
        /\ UNCHANGED <<device, server, service, gattConnected>>
        /\ (open' => currentStep' = 1 /\ ~loading')]_vars

\* C11: the step at which the registration call returns Conflict ends the
\* run Done{AlreadyRegistered} without a call of disconnect() and leaves the
\* transport (handles and link) as it was; such a run never calls
\* disconnect().
C11_ConflictLeavesTransportOpen ==
  /\ [](\A t \in SubmitRuns : tasks[t].out = "AlreadyRegistered" => tasks[t].disc = 0)
  /\ [][\A t \in Tasks : (tasks[t].reg = "pending" /\ tasks'[t].reg = "Conflict") =>
            /\ tasks'[t].out = "AlreadyRegistered"
            /\ UNCHANGED <<device, server, service, gattConnected, disconnectCalls>>]_vars

C11_Witness ==
  /\ SessionDone /\ IsConnected /\ service = "live" /\ disconnectCalls = 0
  /\ \E t \in SubmitRuns : tasks[t].out = "AlreadyRegistered"

\* the error kind the specification gives a cause of a connect() failure
ErrorKind(cause) == IF cause = "UserCancelled" THEN "UserCancelled" ELSE "ConnectionFailed"

ConnectCauses == {"UserCancelled", "NoGatt", "GattConnect", "ServiceBinding"}

\* C12: the error a failed connect run surfaces tells the kind of its cause:
\* it differs from the error of every cause of another kind.
C12_ConnectErrorKindPerCause ==
  \A t \in Tasks : tasks[t].cause # "none" =>
     /\ tasks[t].out = "Errored"
     /\ \A c \in ConnectCauses :
           ErrorKind(c) # ErrorKind(tasks[t].cause) => tasks[t].err # ConnectError(c)

\* C13: on a host without the wireless stack the connect click surfaces
\* the Unsupported error and changes nothing else; no run is ever started,
\* the step stays 0 and the transport caches nothing.
C13_UnsupportedChangesNothingElse ==
  /\ [](~supported =>
          /\ \A t \in Tasks : tasks[t].pc = "idle"
          /\ currentStep = 0 /\ ~loading
          /\ device = "null" /\ server = "null" /\ service = "null" /\ ~gattConnected)
  /\ [][(~supported /\ HandleConnectDevice) =>
            /\ errorMessage' = MsgUnsupported
            /\ UNCHANGED <<open, currentStep, loading, progress, deviceMac, fileList,
                           device, server, service, gattConnected, tasks, registered>>]_vars

C13_Witness == ~supported /\ open /\ errorMessage = MsgUnsupported

C15_FallbackIdUnique ==
  \A i, j \in 1..Len(fallbackIds) :
     /\ fallbackIds[i] # ""
     /\ i # j => fallbackIds[i] # fallbackIds[j]

\* every field and every frame of the asset of the run has been acknowledged
AllTransferred(rec) ==
  LET acked == SelectSeq(rec.wlog, LAMBDA e : e.st = "ok" /\ e.f # "reset")
      whole == ExpectedWrites(rec.file)
  IN WriteKeys(acked) = SubSeq(whole, 1, Len(whole) - 1)

\* C16: the combined progress values a provisioning run reports lie in
\* [0, 1], never decrease, and equal 1 only once every field and every
\* frame of the asset has been acknowledged; each report is what the UI
\* then shows.
C16_ProgressMonotone ==
  /\ [](\A t \in SubmitRuns :
          LET p == tasks[t].prog IN
          /\ \A j \in 1..Len(p) :
                /\ p[j][2] > 0 /\ 0 <= p[j][1] /\ p[j][1] <= p[j][2]
                /\ p[j][1] = p[j][2] => AllTransferred(tasks[t])
          /\ \A j \in 1..(Len(p) - 1) : p[j][1] * p[j + 1][2] <= p[j + 1][1] * p[j][2])
  /\ [][\A t \in Tasks : Len(tasks'[t].prog) > Len(tasks[t].prog) =>
            LET q == tasks'[t].prog[Len(tasks'[t].prog)] IN
            progress' = RoundPercent(q[1], q[2])]_vars

C16_Witness ==
  /\ progress = 100
  /\ \E t \in SubmitRuns :
        tasks[t].prog = << <<1, 4>>, <<2, 4>>, <<3, 4>>, <<10, 12>>, <<11, 12>>, <<12, 12>>, <<4, 4>> >>

\* C17: a run without asset whose registration returned Created and whose
\* three scalar writes were acknowledged has, once it has ended, ended
\* Done{Provisioned}, reported exactly 1/3, 2/3, 3/3 and called
\* disconnect() once.
C17_ScalarOnlyScenario ==
  \A t \in SubmitRuns :
     (/\ tasks[t].pc = "done" /\ tasks[t].file = NoFile /\ tasks[t].reg = "Created"
      /\ Len(tasks[t].wlog) >= Len(Fields)
      /\ \A j \in 1..Len(Fields) : tasks[t].wlog[j].st = "ok") =>
        /\ tasks[t].out = "Provisioned"
        /\ tasks[t].prog = << <<1, 3>>, <<2, 3>>, <<3, 3>> >>
        /\ tasks[t].disc = 1

\* the positions of a run at which a channel operation (characteristic
\* lookup, read or write) is pending
ChannelOps ==
  {"macGetChar", "macRead", "getChar", "writeValue", "imgGetChar", "imgWrite",
   "resetGetChar", "resetWrite"}

\* C18: a step that issues a channel operation leaves a service handle
\* bound and gives the operation that handle; a step of a transferring run
\* taken while no service handle is bound ends the run without a new write
\* and leaves the transport as it is.
C18_NoChannelOpUnbound ==
  [][\A t \in Tasks :
        /\ (tasks'[t].pc \in ChannelOps /\ tasks'[t].pc # tasks[t].pc) =>
              service' # "null" /\ tasks'[t].h # "null"
        /\ (/\ tasks[t].kind = "submit" /\ tasks[t].pc \notin {"validate", "done"}
            /\ service = "null" /\ tasks'[t] # tasks[t]) =>
              /\ tasks'[t].pc = "done"
              /\ Len(tasks'[t].wlog) = Len(tasks[t].wlog)
              /\ UNCHANGED <<device, server, service, gattConnected>>]_vars

\* C19: while the session is cancelled no run issues a frame write.
C19_NoFrameAfterCancel ==
  [][cancelled => \A t \in Tasks :
        Len(ImageWrites(tasks'[t])) <= Len(ImageWrites(tasks[t]))]_vars

\* C20: while the session is cancelled its state is the reset state: step
\* 0, progress 0, no error, no identity.
C20_NoCallbackAfterCancel ==
  cancelled =>
     currentStep = 0 /\ progress = 0 /\ errorMessage = NoError /\ deviceMac = ""

\* the three cached handles of BluetoothService are cleared
Cleared == device = "null" /\ server = "null" /\ service = "null"

\* C21: disconnect() is total and idempotent: in whatever transport state it
\* is called (never connected, connected, link dropped, already disconnected)
\* it can run, it leaves device, server and service cleared and isConnected()
\* false, and a call on an already cleared transport changes nothing of it.
C21_DisconnectIdempotentTotal ==
  /\ [](disconnectCalls < MaxCalls => ENABLED CallDisconnect)
  /\ [][disconnectCalls' > disconnectCalls =>
          /\ Cleared'
          /\ ~IsConnected'
          /\ Cleared => UNCHANGED transport]_vars

\* disconnect() was called twice on a transport that never connected
C21_Witness ==
  /\ disconnectCalls = 2
  /\ \A t \in Tasks : tasks[t].pc = "idle"
  /\ Cleared /\ ~IsConnected

\* C22: no single characteristic write of a transfer carries more than
\* CHUNK_SIZE bytes, for the three scalar fields as for the asset.
C22_NoWriteAboveFrameSize ==
  \A t \in SubmitRuns : \A j \in 1..Len(tasks[t].wlog) :
     tasks[t].wlog[j].hi - tasks[t].wlog[j].lo <= CHUNK_SIZE

\* a run that has started and not yet returned; an accepted submit is one
\* whose validation has passed
Running(t)  == tasks[t].pc \notin {"idle", "done", "returned"}
Accepted(t) == tasks[t].kind = "submit" /\ Running(t) /\ tasks[t].pc # "validate"

\* C23: at most one provisioning run is in progress (so at most one
\* registration call is in flight and no run moves the session to Done while
\* another is still transferring), and at most one connect is in flight.
C23_OneRunAtATime ==
  /\ Cardinality({t \in Tasks : Accepted(t)}) <= 1
  /\ Cardinality({t \in Tasks : tasks[t].kind = "connect" /\ Running(t)}) <= 1

\* the positions at which a run waits for a BLE operation it has issued
BleOps == {"gattConnect", "getPrimaryService", "macGetChar", "macRead",
           "getChar", "writeValue", "imgGetChar", "imgWrite",
           "resetGetChar", "resetWrite"}
InFlight == {t \in Tasks : tasks[t].pc \in BleOps}

\* C24: at most one BLE operation is in flight on the connection: no two runs
\* wait for an operation at the same time, and disconnect() is called only
\* when no other operation is still unresolved.
C24_OneOperationInFlight ==
  /\ [](Cardinality(InFlight) <= 1)
  /\ [][disconnectCalls' > disconnectCalls =>
          \A t \in InFlight : tasks'[t].pc # tasks[t].pc]_vars

\* C25: disconnect() is never executed while the current step is still the
\* transfer step.  In handleWriteConfig and in handleCancel the call comes
\* before setCurrentStep() in the same synchronous block, so the step at the
\* moment of the call is the step of the state the action starts from.
C25_StepLeftBeforeDisconnect ==
  [][disconnectCalls' > disconnectCalls => currentStep # 2]_vars

\* the registration outcomes after which handleWriteConfig goes on to writeConfig()
TransferOutcomes ==
  {o \in Outcomes :
     LET rec == AfterRegister([IdleTask EXCEPT !.kind = "submit", !.pc = "register"], o) IN
       rec.out # "AlreadyRegistered" /\ rec.err # MsgRegister}

\* C26: after a run that failed in the transfer (registration had returned
\* Created) a restart of the flow for the same identity runs the transfer
\* again: the backend can still give that identity an answer after which
\* handleWriteConfig writes the configuration.
C26_RestartTransfersAgain ==
  \A t \in SubmitRuns :
     (tasks[t].reg = "Created" /\ tasks[t].out = "Errored") =>
        \E o \in TransferOutcomes : Answers(o, tasks[t].mac)

\* C27: a connect() that failed leaves the transport clean (isConnected()
\* false, no handle cached), and whenever no connect() is under way
\* isConnected() implies that the service handle is bound.
C27_FailedConnectLeavesTransportClean ==
  /\ \A t \in Tasks :
       (tasks[t].kind = "connect" /\ tasks[t].pc = "done" /\ tasks[t].cause # "none") =>
          ~IsConnected /\ Cleared
  /\ (IsConnected /\ \A t \in Tasks : ~(tasks[t].kind = "connect" /\ Running(t))) =>
       service # "null"

\* C28: a run ends Done{Provisioned} only if its registration returned
\* Created and it wrote, each acknowledged, the network name, the network
\* secret, the rendezvous URL, every frame of the asset when there is one,
\* and after all of them the reset command.
C28_ProvisionedOnlyAfterFullTransfer ==
  \A t \in SubmitRuns : tasks[t].out = "Provisioned" =>
     /\ tasks[t].reg = "Created"
     /\ WriteKeys(tasks[t].wlog) = ExpectedWrites(tasks[t].file)
     /\ \A j \in 1..Len(tasks[t].wlog) : tasks[t].wlog[j].st = "ok"

C28_Witness ==
  \E t \in SubmitRuns :
     /\ tasks[t].out = "Provisioned" /\ SessionDone
     /\ tasks[t].file = 1300 /\ Len(tasks[t].wlog) = Len(Fields) + 3 + 1

\* the frames of the asset the run has had acknowledged
AckedFrames(rec) == SelectSeq(ImageWrites(rec), LAMBDA e : e.st = "ok")

\* C30: in a transfer of k frames the writer waits the pacing delay once
\* after each acknowledged frame but the last, before the next frame is
\* issued, and never after the final frame: k - 1 times in all, 0 times for
\* k <= 1.  paced lists the frames after which the delay was started.
C30_PacingBetweenFrames ==
  \A t \in SubmitRuns : tasks[t].file # NoFile =>
     LET rec == tasks[t]
         k == CeilDiv(rec.file, CHUNK_SIZE)
     IN /\ rec.paced = [j \in 1..Len(rec.paced) |-> j - 1]
        /\ \A j \in 1..Len(rec.paced) : rec.paced[j] < k - 1
        /\ Len(rec.paced) = Min(Len(AckedFrames(rec)), IF k >= 1 THEN k - 1 ELSE 0)
        /\ Len(ImageWrites(rec)) <= Len(rec.paced) + 1
        /\ (rec.pc = "delay") = (Len(ImageWrites(rec)) = Len(rec.paced) /\ rec.paced # <<>> /\ Running(t))
        /\ ImageTransferred(rec) => Len(rec.paced) = (IF k >= 1 THEN k - 1 ELSE 0)

C30_Witness ==
  \E t \in SubmitRuns :
     /\ ImageTransferred(tasks[t]) /\ tasks[t].file = 1300
     /\ tasks[t].paced = <<0, 1>>

====
